---- MODULE Spec2Model ----
(***************************************************************************)
(* Model of boydvde/spotify_project: the rate limiter, the retrying        *)
(* fetchers, the persisters and the stage scheduler of src/spot_load.py,   *)
(* and the enrichment loop of src/musicbrainz_load.py.                     *)
(*                                                                         *)
(* Time is counted in tenths of a second (the base wait of 0.1 s is one    *)
(* unit), so every duration of the source is an integer here.              *)
(***************************************************************************)
EXTENDS Integers, Sequences, FiniteSets, TLC

VARIABLES
    now,                  \* time.time(), in tenths of a second
    halfmin_timestamps,   \* spot_load.py:18
    hourly_timestamps,    \* spot_load.py:19
    daily_timestamps,     \* spot_load.py:20
    total_requests,       \* spot_load.py:23
    timestamps,           \* musicbrainz_load.py:8
    fop,                  \* the fetch function being executed, or "none"
    fpc,                  \* where that function stands
    fargs,                \* its arguments
    retries,              \* its retry budget
    attempt,              \* the loop variable of "for attempt in range(retries)"
    offset,               \* paginated fetches: the next offset
    total,                \* paginated fetches: the provider-reported total
    items,                \* paginated fetches: the items gathered so far
    fresult,              \* the value returned: NULL (None) or <<value>>
    log,                  \* history of the call: limiter admissions and HTTP attempts
    budget,               \* failing responses the providers may still give
    db,                   \* the store as the connection sees it
    committed,            \* the store as committed
    check_type,           \* spot_load.py:706
    check_albums,         \* spot_load.py:707
    pos,                  \* where the scheduler of spot_load.py stands
    i,                    \* the page counter of the stage loops
    page,                 \* the ids selected for the page being processed
    request_log,          \* the file at REQUEST_LOG_PATH: NULL or <<logs>>
    restarts,             \* how often the scheduler was started again
    mpc,                  \* where the loop of musicbrainz_load.py stands
    artist_batch,         \* musicbrainz_load.py:109
    pjob,                 \* the persister applied last and its input
    once                  \* the store after that persister was applied once

limVars == <<now, halfmin_timestamps, hourly_timestamps, daily_timestamps, total_requests>>
fetchVars == <<fop, fpc, fargs, retries, attempt, offset, total, items, fresult, log, budget>>

storeVars == <<db, committed>>
schedVars == <<check_type, check_albums, pos, i, page, request_log, restarts>>
mbVars == <<mpc, artist_batch>>
persistVars == <<pjob, once>>

vars == <<limVars, timestamps, fetchVars, storeVars, schedVars, mbVars, persistVars>>

\* None / SQL NULL; a value v that may be absent is held as <<v>>
NULL == <<>>
Val(v) == <<v>>

(***************************************************************************)
(* Rate limiting (spot_load.py:12-94)                                      *)
(***************************************************************************)
MAX_REQUESTS_PER_30_SEC == 40
MAX_REQUESTS_PER_HOUR == 2500
MAX_REQUESTS_PER_DAY == 4500
\* base_wait = 0.1 s
base_wait == 1
\* one second, thirty seconds, one hour, one day in tenths of a second
Second == 10 * base_wait
HalfMinute == 30 * Second
Hour == 3600 * Second
Day == 86400 * Second

\* the limiter's state as one value
LimState ==
    [now |-> now,
     halfmin_timestamps |-> halfmin_timestamps,
     hourly_timestamps |-> hourly_timestamps,
     daily_timestamps |-> daily_timestamps,
     total_requests |-> total_requests]

EmptyLimiter(t) ==
    [now |-> t,
     halfmin_timestamps |-> <<>>,
     hourly_timestamps |-> <<>>,
     daily_timestamps |-> <<>>,
     total_requests |-> 0]

SetLim(L) ==
    /\ now' = L.now
    /\ halfmin_timestamps' = L.halfmin_timestamps
    /\ hourly_timestamps' = L.hourly_timestamps
    /\ daily_timestamps' = L.daily_timestamps
    /\ total_requests' = L.total_requests

\* a variant that empties the hourly and the daily window on every call
CleanOldLongEmptied(q, current_time, window) ==
    IF window > HalfMinute THEN <<>>
    ELSE SelectSeq(q, LAMBDA t : current_time - t <= window)

\* while q and current_time - q[0] > window: q.popleft()
RECURSIVE CleanOld(_, _, _)
CleanOld(q, current_time, window) ==
    IF q # <<>> /\ current_time - Head(q) > window
    THEN CleanOld(Tail(q), current_time, window)
    ELSE q

\* the sleep taken for one window once its deque is at the cap
WindowWait(q, current_time, cap, window) ==
    IF Len(q) >= cap
    THEN (window - (current_time - Head(q))) + Second
    ELSE 0

\* a variant that takes the base wait only when some window is at its cap
check_rate_limit_when_capped(L) ==
    LET current_time == L.now
        h == CleanOld(L.halfmin_timestamps, current_time, HalfMinute)
        hr == CleanOld(L.hourly_timestamps, current_time, Hour)
        d == CleanOld(L.daily_timestamps, current_time, Day)
        waits == WindowWait(h, current_time, MAX_REQUESTS_PER_30_SEC, HalfMinute)
                 + WindowWait(hr, current_time, MAX_REQUESTS_PER_HOUR, Hour)
                 + WindowWait(d, current_time, MAX_REQUESTS_PER_DAY, Day)
        slept == IF waits > 0 THEN base_wait + waits ELSE 0
    IN  [now |-> current_time + slept,
         halfmin_timestamps |-> Append(h, current_time),
         hourly_timestamps |-> Append(hr, current_time),
         daily_timestamps |-> Append(d, current_time),
         total_requests |-> L.total_requests + 1]

\* check_rate_limit(): the timestamp recorded is the clock reading taken on
\* entry; the sleeps only move the clock on.
check_rate_limit(L) ==
    LET current_time == L.now
        h == CleanOld(L.halfmin_timestamps, current_time, HalfMinute)
        hr == CleanOld(L.hourly_timestamps, current_time, Hour)
        d == CleanOld(L.daily_timestamps, current_time, Day)
        slept == base_wait
                 + WindowWait(h, current_time, MAX_REQUESTS_PER_30_SEC, HalfMinute)
                 + WindowWait(hr, current_time, MAX_REQUESTS_PER_HOUR, Hour)
                 + WindowWait(d, current_time, MAX_REQUESTS_PER_DAY, Day)
    IN  [now |-> current_time + slept,
         halfmin_timestamps |-> Append(h, current_time),
         hourly_timestamps |-> Append(hr, current_time),
         daily_timestamps |-> Append(d, current_time),
         total_requests |-> L.total_requests + 1]

(***************************************************************************)
(* The limiter alone: calls of check_rate_limit separated by pauses of the *)
(* caller.                                                                 *)
(***************************************************************************)
MaxCalls == 43
MaxPauses == 2
\* the pauses a caller may take between two calls: none to speak of, or
\* longer than one of the three windows
Pauses == {HalfMinute + Second, Hour + Second, Day + Second}

InitLimiterVars ==
    /\ now = 0
    /\ halfmin_timestamps = <<>>
    /\ hourly_timestamps = <<>>
    /\ daily_timestamps = <<>>
    /\ total_requests = 0

InitFetchIdle ==
    /\ fop = "none"
    /\ fpc = "idle"
    /\ fargs = NULL
    /\ retries = 0
    /\ attempt = 0
    /\ offset = 0
    /\ total = 0
    /\ items = <<>>
    /\ fresult = NULL
    /\ log = <<>>

\* the parts of the state a specification does not use
InitStoreIdle ==
    /\ db = [Track |-> {}, Album |-> {}, Artist |-> {}, Genre |-> {}, Area |-> {},
             TrackArtist |-> {}, AlbumArtist |-> {}, ArtistGenre |-> {}]
    /\ committed = db

InitSchedIdle ==
    /\ check_type = ""
    /\ check_albums = FALSE
    /\ pos = "off"
    /\ i = 0
    /\ page = <<>>
    /\ request_log = NULL
    /\ restarts = 0

InitMbIdle ==
    /\ mpc = "off"
    /\ artist_batch = <<>>

InitPersistIdle ==
    /\ pjob = [persister |-> "none", input |-> <<>>, stmts |-> <<>>, raised |-> FALSE,
               count |-> 0, fresh |-> 0]
    /\ once = NULL

InitLimiter ==
    /\ InitLimiterVars
    /\ InitFetchIdle
    /\ budget = 0
    /\ timestamps = <<>>
    /\ InitStoreIdle
    /\ InitSchedIdle
    /\ InitMbIdle
    /\ InitPersistIdle

LimiterCall ==
    /\ total_requests < MaxCalls
    /\ SetLim(check_rate_limit(LimState))
    /\ UNCHANGED <<timestamps, fetchVars, storeVars, schedVars, mbVars, persistVars>>

LimiterPause ==
    /\ total_requests < MaxCalls
    /\ now < MaxPauses * (HalfMinute + Second)
    /\ \E p \in Pauses : now' = now + p
    /\ UNCHANGED <<halfmin_timestamps, hourly_timestamps, daily_timestamps, total_requests>>
    /\ UNCHANGED <<timestamps, fetchVars, storeVars, schedVars, mbVars, persistVars>>

NextLimiter ==
    \/ LimiterCall
    \/ LimiterPause

SpecLimiter == InitLimiter /\ [][NextLimiter]_vars

\* C1: no window ever holds more timestamps than its cap, the state right
\* after a call has recorded its timestamp included.
C1_WindowsWithinCaps ==
    /\ Len(halfmin_timestamps) <= MAX_REQUESTS_PER_30_SEC
    /\ Len(hourly_timestamps) <= MAX_REQUESTS_PER_HOUR
    /\ Len(daily_timestamps) <= MAX_REQUESTS_PER_DAY

(***************************************************************************)
(* Provider A: what the endpoints answer for the ids of the model.         *)
(* (record layouts: the docstrings of dump_tracks, dump_albums and         *)
(* dump_artists)                                                           *)
(***************************************************************************)
TrackIds == {"t1", "t2", "t3"}
AlbumIds == {"al1", "al2", "al3"}
ArtistIds == {"a1", "a2"}

\* GET /v1/tracks?ids=...: one track object per id
TrackInfo(id) ==
    IF id = "t1"
    THEN [id |-> "t1", name |-> "T1", artists |-> <<[id |-> "a1"]>>,
          album |-> [id |-> "al1"], duration_ms |-> 1000, popularity |-> 10,
          explicit |-> FALSE, track_number |-> 1]
    ELSE IF id = "t2"
    THEN [id |-> "t2", name |-> "T2", artists |-> <<[id |-> "a1"]>>,
          album |-> [id |-> "al1"], duration_ms |-> 2000, popularity |-> 20,
          explicit |-> TRUE, track_number |-> 2]
    ELSE [id |-> id, name |-> "T3", artists |-> <<[id |-> "a2"], [id |-> "a1"]>>,
          album |-> [id |-> "al2"], duration_ms |-> 3000, popularity |-> 30,
          explicit |-> FALSE, track_number |-> 1]

\* GET /v1/albums?ids=...: one album object per id; al3 carries a release
\* date of a length the loader does not know; every id outside AlbumIds is
\* one more single of artist a1
AlbumInfo(id) ==
    IF id = "al1"
    THEN [id |-> "al1", name |-> "AL1", artists |-> <<[id |-> "a1"]>>,
          release_date |-> "2001", total_tracks |-> 2, label |-> "L1",
          album_type |-> "album", popularity |-> 11,
          tracks |-> [items |-> <<[id |-> "t1"], [id |-> "t2"]>>]]
    ELSE IF id = "al2"
    THEN [id |-> "al2", name |-> "AL2", artists |-> <<[id |-> "a2"]>>,
          release_date |-> "2001-05", total_tracks |-> 1, label |-> "L2",
          album_type |-> "single", popularity |-> 22,
          tracks |-> [items |-> <<[id |-> "t3"]>>]]
    ELSE IF id = "al3"
    THEN [id |-> "al3", name |-> "AL3", artists |-> <<[id |-> "a2"]>>,
          release_date |-> "2001-5", total_tracks |-> 1, label |-> "L3",
          album_type |-> "album", popularity |-> 33,
          tracks |-> [items |-> <<[id |-> "t3"]>>]]
    ELSE [id |-> id, name |-> "B", artists |-> <<[id |-> "a1"]>>,
          release_date |-> "2002-02-02", total_tracks |-> 1, label |-> "L1",
          album_type |-> "single", popularity |-> 5,
          tracks |-> [items |-> <<[id |-> "t3"]>>]]

\* GET /v1/artists?ids=...: one artist object per id
ArtistInfo(id) ==
    IF id = "a1"
    THEN [id |-> "a1", name |-> "A1", popularity |-> 50,
          followers |-> [total |-> 500], genres |-> <<"rock">>]
    ELSE [id |-> id, name |-> "A2", popularity |-> 60,
          followers |-> [total |-> 600], genres |-> <<"rock", "pop">>]

\* the batch endpoints' payload: {'tracks': [...]}, {'albums': [...]}, {'artists': [...]}
ItemInfo(item_type, id) ==
    IF item_type = "track" THEN TrackInfo(id)
    ELSE IF item_type = "album" THEN AlbumInfo(id)
    ELSE IF item_type = "artist" THEN ArtistInfo(id)
    ELSE [id |-> id]

BatchPayload(item_type, item_ids) ==
    [k \in 1..Len(item_ids) |-> ItemInfo(item_type, item_ids[k])]

\* GET /v1/artists/{id}/albums?limit=50&offset=o: {'total': n, 'items': [...]}.
\* a1's listing fits one page; a2's listing is reported with 51 entries, so
\* that it takes two pages (the pages carry only the ids of AlbumIds).
ListingLimit == 50
AlbumListing(artist_id, o) ==
    IF artist_id = "a1"
    THEN [total |-> 1, items |-> IF o = 0 THEN <<[id |-> "al1"]>> ELSE <<>>]
    ELSE [total |-> ListingLimit + 1,
          items |-> IF o = 0 THEN <<[id |-> "al2"]>>
                    ELSE IF o = ListingLimit THEN <<[id |-> "al3"]>>
                    ELSE <<>>]

\* GET /v1/me/tracks?limit=50&offset=o: {'total': n, 'items': [{'track': ...}]}
SavedListing(o) ==
    [total |-> ListingLimit + 1,
     items |-> IF o = 0 THEN <<[track |-> TrackInfo("t1")]>>
               ELSE IF o = ListingLimit THEN <<[track |-> TrackInfo("t3")]>>
               ELSE <<>>]

\* what one HTTP attempt can come to: a 2xx answer, a 429 with its
\* Retry-After header (absent, or a number of seconds), another error status
\* (raise_for_status raises HTTPError), or no answer at all (another
\* RequestException)
RetryAfterHeaders == {NULL, Val(2)}
Outcomes ==
    {[kind |-> "ok", retry_after |-> NULL], [kind |-> "http_error", retry_after |-> NULL],
     [kind |-> "transport", retry_after |-> NULL]}
    \cup {[kind |-> "http429", retry_after |-> h] : h \in RetryAfterHeaders}

\* int(response.headers.get("Retry-After", 1))
RetryAfter(o) == IF o.retry_after = NULL THEN 1 ELSE o.retry_after[1]

(***************************************************************************)
(* The fetch functions of spot_load.py, one step per limiter call and per  *)
(* HTTP attempt.                                                           *)
(***************************************************************************)
\* retries=3, the default of every fetch function of spot_load.py
DefaultRetries == 3

RECURSIVE Pow2(_)
Pow2(n) == IF n <= 0 THEN 1 ELSE 2 * Pow2(n - 1)

\* time.sleep(2 ** attempt)
Backoff(a) == Pow2(a) * Second

LimitEvent == [ev |-> "limit", attempt |-> attempt, outcome |-> "", at |-> now, hint |-> 0]
HttpEvent(o) ==
    [ev |-> "http", attempt |-> attempt, outcome |-> o.kind, at |-> now,
     hint |-> IF o.kind = "http429" THEN RetryAfter(o) ELSE 0]

\* a failing response uses up one of the failures the providers may give
Consume(o) ==
    /\ o.kind # "ok" => budget > 0
    /\ budget' = IF o.kind = "ok" THEN budget ELSE budget - 1

\* return v
Return(v) ==
    /\ fpc' = "returned"
    /\ fresult' = v

\* raise ValueError(...)
Raise ==
    /\ fpc' = "raised"
    /\ fresult' = NULL

\* a variant with one maximum for every kind
max_sizes_flat(item_type) == 50

\* get_batch_info(item_type, item_ids, retries), as far as the first loop
\* iteration; get_info(item_type, item_id, retries) likewise
max_sizes(item_type) == IF item_type = "album" THEN 20 ELSE 50

Call_get_batch_info(item_type, item_ids, r) ==
    /\ fop' = "get_batch_info"
    /\ fargs' = [item_type |-> item_type, item_ids |-> item_ids]
    /\ retries' = r
    /\ attempt' = 0
    /\ log' = <<>>
    /\ IF item_type \notin {"track", "album", "artist"} THEN Raise
       ELSE IF item_ids = <<>> THEN Return(NULL)
       ELSE IF Len(item_ids) > max_sizes(item_type) THEN Raise
       ELSE IF r > 0 THEN fpc' = "limit" /\ fresult' = NULL
       ELSE Return(NULL)
    /\ UNCHANGED <<offset, total, items>>

Call_get_info(item_type, item_id, r) ==
    /\ fop' = "get_info"
    /\ fargs' = [item_type |-> item_type, item_ids |-> <<item_id>>]
    /\ retries' = r
    /\ attempt' = 0
    /\ log' = <<>>
    /\ IF item_type \notin {"track", "album", "artist", "playlist"} THEN Raise
       ELSE IF r > 0 THEN fpc' = "limit" /\ fresult' = NULL
       ELSE Return(NULL)
    /\ UNCHANGED <<offset, total, items>>

\* get_user_saved(retries) and get_artist_albums(artist_id, retries), as far
\* as the first test of "while offset < total"
Call_paginated(op, artist_id, r) ==
    /\ fop' = op
    /\ fargs' = [artist_id |-> artist_id]
    /\ retries' = r
    /\ attempt' = 0
    /\ log' = <<>>
    /\ offset' = 0
    /\ total' = ListingLimit + 1
    /\ items' = <<>>
    /\ fpc' = "limit"
    /\ fresult' = NULL

\* check_rate_limit() as called by the fetch functions: inside the retry
\* loop by get_info and get_batch_info, before it by get_user_saved and
\* get_artist_albums
FetchLimit ==
    /\ fpc = "limit"
    /\ fop \in {"get_info", "get_batch_info", "get_user_saved", "get_artist_albums"}
    /\ SetLim(check_rate_limit(LimState))
    /\ log' = Append(log, LimitEvent)
    /\ fpc' = "request"
    /\ attempt' = IF fop \in {"get_user_saved", "get_artist_albums"} THEN 0 ELSE attempt
    /\ UNCHANGED <<fop, fargs, retries, offset, total, items, fresult, budget, timestamps>>

\* a variant that leaves out time.sleep(retry_after)
BatchSleepNoHint(o) == now + Backoff(attempt)

\* the clock after one loop iteration of get_info / get_batch_info that did
\* not return
BatchSleep(o) ==
    IF o.kind = "http429" /\ attempt < retries - 1
    THEN now + RetryAfter(o) * Second + Backoff(attempt)
    ELSE now + Backoff(attempt)

\* one iteration of "for attempt in range(retries)" of get_info and
\* get_batch_info, after its check_rate_limit()
BatchRequest ==
    /\ fpc = "request"
    /\ fop \in {"get_info", "get_batch_info"}
    /\ \E o \in Outcomes :
        /\ Consume(o)
        /\ log' = Append(log, HttpEvent(o))
        /\ IF o.kind = "ok"
           THEN /\ Return(Val(BatchPayload(fargs.item_type, fargs.item_ids)))
                /\ UNCHANGED <<attempt, now>>
           ELSE /\ now' = BatchSleep(o)
                /\ attempt' = attempt + 1
                /\ IF attempt + 1 < retries
                   THEN fpc' = "limit" /\ fresult' = NULL
                   ELSE Return(NULL)
    /\ UNCHANGED <<halfmin_timestamps, hourly_timestamps, daily_timestamps, total_requests>>
    /\ UNCHANGED <<fop, fargs, retries, offset, total, items, timestamps>>

\* the test of "while offset < total" after the retry loop of a paginated
\* fetch was left
WhileTest(off, tot, its) ==
    IF off < tot
    THEN fpc' = "limit" /\ fresult' = NULL
    ELSE Return(Val(its))

\* one iteration of the retry loop of get_artist_albums
AlbumsRequest ==
    /\ fpc = "request"
    /\ fop = "get_artist_albums"
    /\ \E o \in Outcomes :
        /\ Consume(o)
        /\ log' = Append(log, HttpEvent(o))
        /\ IF o.kind = "ok"
           THEN LET data == AlbumListing(fargs.artist_id, offset)
                IN  /\ total' = data.total
                    /\ items' = items \o data.items
                    /\ offset' = offset + ListingLimit
                    /\ WhileTest(offset + ListingLimit, data.total, items \o data.items)
                    /\ UNCHANGED <<attempt, now>>
           ELSE IF o.kind = "http429" /\ attempt < retries - 1
           THEN /\ now' = now + RetryAfter(o) * Second
                /\ attempt' = attempt + 1
                /\ UNCHANGED <<fpc, fresult, offset, total, items>>
           ELSE IF o.kind \in {"http429", "http_error"}
           THEN /\ Return(Val(items))
                /\ UNCHANGED <<attempt, now, offset, total, items>>
           ELSE /\ now' = now + Backoff(attempt)
                /\ attempt' = attempt + 1
                /\ IF attempt + 1 < retries
                   THEN UNCHANGED <<fpc, fresult>>
                   ELSE WhileTest(offset, total, items)
                /\ UNCHANGED <<offset, total, items>>
    /\ UNCHANGED <<halfmin_timestamps, hourly_timestamps, daily_timestamps, total_requests>>
    /\ UNCHANGED <<fop, fargs, retries, timestamps>>

\* one iteration of the retry loop of get_user_saved; the sleep after the
\* loop uses the last value of attempt
SavedRequest ==
    /\ fpc = "request"
    /\ fop = "get_user_saved"
    /\ \E o \in Outcomes :
        /\ Consume(o)
        /\ log' = Append(log, HttpEvent(o))
        /\ IF o.kind = "ok"
           THEN LET data == SavedListing(offset)
                IN  /\ total' = data.total
                    /\ items' = items \o data.items
                    /\ offset' = offset + ListingLimit
                    /\ now' = now + Backoff(attempt)
                    /\ WhileTest(offset + ListingLimit, data.total, items \o data.items)
                    /\ UNCHANGED attempt
           ELSE IF o.kind = "http429" /\ attempt < retries - 1
           THEN /\ now' = now + RetryAfter(o) * Second
                /\ attempt' = attempt + 1
                /\ UNCHANGED <<fpc, fresult, offset, total, items>>
           ELSE IF o.kind \in {"http429", "http_error"}
           THEN /\ Return(Val(items))
                /\ UNCHANGED <<attempt, now, offset, total, items>>
           ELSE /\ IF attempt + 1 < retries
                   THEN /\ attempt' = attempt + 1
                        /\ UNCHANGED <<fpc, fresult, now>>
                   ELSE /\ now' = now + Backoff(attempt)
                        /\ WhileTest(offset, total, items)
                        /\ UNCHANGED attempt
                /\ UNCHANGED <<offset, total, items>>
    /\ UNCHANGED <<halfmin_timestamps, hourly_timestamps, daily_timestamps, total_requests>>
    /\ UNCHANGED <<fop, fargs, retries, timestamps>>

(***************************************************************************)
(* The relational store.  A store is a record of tables, a table a set of  *)
(* rows; the SQL statements of the persisters are values, so that a        *)
(* persister is the sequence of statements it executes.                    *)
(***************************************************************************)
\* Artist.retrieved_albums of a row inserted without it: the stage query
\* "retrieved_albums IS 0" (spot_load.py:787) finds the rows inserted by
\* "INSERT OR IGNORE INTO Artist (id)", so the column defaults to 0
RetrievedAlbumsDefault == 0

EmptyStore ==
    [Track |-> {}, Album |-> {}, Artist |-> {}, Genre |-> {}, Area |-> {},
     TrackArtist |-> {}, AlbumArtist |-> {}, ArtistGenre |-> {}]

\* INSERT ... INTO Track (id) / Album (id) / Artist (id): every other column
\* takes its default
TrackPlaceholder(id) ==
    [id |-> id, name |-> NULL, album_id |-> NULL, duration |-> NULL,
     popularity |-> NULL, explicit |-> NULL, track_number |-> NULL]

AlbumPlaceholder(id) ==
    [id |-> id, name |-> NULL, release_date |-> NULL, total_tracks |-> NULL,
     label |-> NULL, album_type |-> NULL, popularity |-> NULL]

ArtistPlaceholder(id) ==
    [id |-> id, name |-> NULL, popularity |-> NULL, followers |-> NULL,
     area_id |-> NULL, retrieved_albums |-> RetrievedAlbumsDefault]

HasRow(table, id) == \E r \in table : r.id = id
Row(table, id) == CHOOSE r \in table : r.id = id

\* the id an INTEGER PRIMARY KEY column gives the next row
RECURSIVE MaxId(_)
MaxId(table) ==
    IF table = {} THEN 0
    ELSE LET r == CHOOSE x \in table : TRUE
             m == MaxId(table \ {r})
         IN  IF r.id > m THEN r.id ELSE m

\* INSERT OR REPLACE: the row with this primary key is deleted, the new row
\* inserted
InsertOrReplace(table, row) == {r \in table : r.id # row.id} \cup {row}

\* a variant in which the inserted row takes the place of the row it finds
InsertOverwriting(table, row) == {r \in table : r.id # row.id} \cup {row}

\* INSERT OR IGNORE of a row given by its primary key
InsertOrIgnore(table, row) == IF HasRow(table, row.id) THEN table ELSE table \cup {row}

\* a variant without the conflict test: a plain INSERT into a table whose
\* name column is not unique
InsertGenreAlways(table, name) ==
    table \cup {[id |-> MaxId(table) + 1, name |-> name]}

\* INSERT OR IGNORE INTO Genre (name): name is UNIQUE
InsertGenre(table, name) ==
    IF \E r \in table : r.name = name THEN table
    ELSE table \cup {[id |-> MaxId(table) + 1, name |-> name]}

\* the JSON value null: None in Python, NULL once bound to a statement
JsonNull == "null"

\* INSERT OR IGNORE INTO Area (name, type): an area is identified by its
\* name and type (spec.md, section 3)
InsertArea(table, name, type) ==
    IF \E r \in table : r.name = name /\ r.type = type THEN table
    ELSE table \cup {[id |-> MaxId(table) + 1, name |-> name, type |-> type]}

\* the execution of one statement
Exec(d, s) ==
    CASE s.op = "replace_track" -> [d EXCEPT !.Track = InsertOrReplace(@, s.row)]
      [] s.op = "replace_album" -> [d EXCEPT !.Album = InsertOrReplace(@, s.row)]
      [] s.op = "replace_artist" -> [d EXCEPT !.Artist = InsertOrReplace(@, s.row)]
      [] s.op = "ignore_track" -> [d EXCEPT !.Track = InsertOrIgnore(@, TrackPlaceholder(s.id))]
      [] s.op = "ignore_album" -> [d EXCEPT !.Album = InsertOrIgnore(@, AlbumPlaceholder(s.id))]
      [] s.op = "ignore_artist" -> [d EXCEPT !.Artist = InsertOrIgnore(@, ArtistPlaceholder(s.id))]
      [] s.op = "ignore_track_artist" ->
            [d EXCEPT !.TrackArtist = @ \cup {<<s.track_id, s.artist_id>>}]
      [] s.op = "ignore_album_artist" ->
            [d EXCEPT !.AlbumArtist = @ \cup {<<s.album_id, s.artist_id>>}]
      [] s.op = "ignore_genre" -> [d EXCEPT !.Genre = InsertGenre(@, s.name)]
      [] s.op = "ignore_artist_genre" ->
            \* SELECT id FROM Genre WHERE name = ?, then the junction insert
            IF \E g \in d.Genre : g.name = s.name
            THEN [d EXCEPT !.ArtistGenre =
                     @ \cup {<<s.artist_id, (CHOOSE g \in d.Genre : g.name = s.name).id>>}]
            ELSE d
      [] s.op = "ignore_area" -> [d EXCEPT !.Area = InsertArea(@, s.name, s.type)]
      [] s.op = "update_area_id" ->
            \* SELECT id FROM Area WHERE name = ? AND type = ?, then
            \* UPDATE Artist SET area_id = ? WHERE id = ?
            IF s.name # JsonNull /\ s.type # JsonNull
               /\ \E a \in d.Area : a.name = s.name /\ a.type = s.type
            THEN LET aid == (CHOOSE a \in d.Area : a.name = s.name /\ a.type = s.type).id
                 IN  [d EXCEPT !.Artist =
                         {IF r.id = s.artist_id THEN [r EXCEPT !.area_id = Val(aid)] ELSE r : r \in @}]
            ELSE d
      [] s.op = "update_retrieved_albums" ->
            [d EXCEPT !.Artist =
                {IF r.id = s.artist_id THEN [r EXCEPT !.retrieved_albums = 1] ELSE r : r \in @}]
      [] OTHER -> d

\* the statements are executed in order; a "raise" ends the execution with
\* the statements before it applied (the first half of the statements, then
\* the second half unless the first raised)
RECURSIVE Run(_, _)
Run(d, stmts) ==
    IF stmts = <<>> THEN [db |-> d, raised |-> FALSE]
    ELSE IF Len(stmts) = 1
    THEN IF stmts[1].op = "raise" THEN [db |-> d, raised |-> TRUE]
         ELSE [db |-> Exec(d, stmts[1]), raised |-> FALSE]
    ELSE LET h == Len(stmts) \div 2
             r == Run(d, SubSeq(stmts, 1, h))
         IN  IF r.raised THEN r ELSE Run(r.db, SubSeq(stmts, h + 1, Len(stmts)))

RECURSIVE Flatten(_)
Flatten(ss) ==
    IF ss = <<>> THEN <<>>
    ELSE IF Len(ss) = 1 THEN ss[1]
    ELSE LET h == Len(ss) \div 2
         IN  Flatten(SubSeq(ss, 1, h)) \o Flatten(SubSeq(ss, h + 1, Len(ss)))

\* int(track['explicit'])
IntOfBool(b) == IF b THEN 1 ELSE 0

(***************************************************************************)
(* The persisters (spot_load.py:456-660)                                   *)
(***************************************************************************)
TrackArtistStmts(track_id, artist_id) ==
    <<[op |-> "ignore_track_artist", track_id |-> track_id, artist_id |-> artist_id],
      [op |-> "ignore_artist", id |-> artist_id]>>

\* the keys dump_tracks reads from a track object before its first statement
TrackFields ==
    {"id", "name", "artists", "album", "duration_ms", "popularity", "explicit",
     "track_number"}

\* a track object the provider sent without its popularity
TrackNoPopularity == [f \in TrackFields \ {"popularity"} |-> TrackInfo("t1")[f]]

\* the body of "for track in tracks" of dump_tracks; track['popularity'] of
\* an object without that key raises KeyError before anything is written
dump_track(track) ==
    IF ~(TrackFields \subseteq DOMAIN track) THEN <<[op |-> "raise"]>>
    ELSE
    <<[op |-> "replace_track",
       row |-> [id |-> track.id, name |-> Val(track.name), album_id |-> Val(track.album.id),
                duration |-> Val(track.duration_ms), popularity |-> Val(track.popularity),
                explicit |-> Val(IntOfBool(track.explicit)),
                track_number |-> Val(track.track_number)]]>>
    \o Flatten([k \in 1..Len(track.artists) |-> TrackArtistStmts(track.id, track.artists[k].id)])
    \o <<[op |-> "ignore_album", id |-> track.album.id]>>

dump_tracks(tracks) == Flatten([k \in 1..Len(tracks) |-> dump_track(tracks[k])])

\* dump_user_saved differs from dump_tracks in the nesting of its input only
dump_user_saved(saved_tracks) ==
    Flatten([k \in 1..Len(saved_tracks) |-> dump_track(saved_tracks[k].track)])

\* a variant that stores every release date as it comes
IsoDateAsIs(release_date) == Val(release_date)

\* "Convert release date to ISO format"; NULL stands for the ValueError
IsoDate(release_date) ==
    IF Len(release_date) = 4 THEN Val(release_date \o "-01-01")
    ELSE IF Len(release_date) = 7 THEN Val(release_date \o "-01")
    ELSE IF Len(release_date) = 10 THEN Val(release_date)
    ELSE NULL

AlbumArtistStmts(album_id, artist_id) ==
    <<[op |-> "ignore_album_artist", album_id |-> album_id, artist_id |-> artist_id],
      [op |-> "ignore_artist", id |-> artist_id]>>

\* the body of "for album in albums" of dump_albums
dump_album(album) ==
    IF IsoDate(album.release_date) = NULL
    THEN <<[op |-> "raise"]>>
    ELSE <<[op |-> "replace_album",
            row |-> [id |-> album.id, name |-> Val(album.name),
                     release_date |-> IsoDate(album.release_date),
                     total_tracks |-> Val(album.total_tracks), label |-> Val(album.label),
                     album_type |-> Val(album.album_type),
                     popularity |-> Val(album.popularity)]]>>
         \o Flatten([k \in 1..Len(album.artists) |-> AlbumArtistStmts(album.id, album.artists[k].id)])
         \o [k \in 1..Len(album.tracks.items) |->
                [op |-> "ignore_track", id |-> album.tracks.items[k].id]]

dump_albums(albums) == Flatten([k \in 1..Len(albums) |-> dump_album(albums[k])])

GenreStmts(artist_id, genre) ==
    <<[op |-> "ignore_genre", name |-> genre],
      [op |-> "ignore_artist_genre", artist_id |-> artist_id, name |-> genre]>>

\* the body of "for artist in artists" of dump_artists; the columns the
\* INSERT OR REPLACE does not name take their defaults
dump_artist(artist) ==
    <<[op |-> "replace_artist",
       row |-> [id |-> artist.id, name |-> Val(artist.name),
                popularity |-> Val(artist.popularity),
                followers |-> Val(artist.followers.total),
                area_id |-> NULL, retrieved_albums |-> RetrievedAlbumsDefault]]>>
    \o Flatten([k \in 1..Len(artist.genres) |-> GenreStmts(artist.id, artist.genres[k])])

dump_artists(artists) == Flatten([k \in 1..Len(artists) |-> dump_artist(artists[k])])

\* the inserts of dump_artist_albums, for the albums get_artist_albums returned
dump_artist_albums(albums) ==
    [k \in 1..Len(albums) |-> [op |-> "ignore_album", id |-> albums[k].id]]

(***************************************************************************)
(* Provider B and get_artist_data_batch (musicbrainz_load.py:7-60)         *)
(***************************************************************************)
BATCH_SIZE == 100
\* retries=5
MbDefaultRetries == 5

\* the artist objects of a search response: with an area and tags, with a
\* begin-area lacking its type and an empty tag list, or with neither
MbShapes == {"full", "begin", "bare", "untyped"}
MbArtist(name, shape) ==
    IF shape = "full"
    THEN [name |-> name, area |-> Val([name |-> Val("UK"), type |-> Val("Country")]),
          begin_area |-> NULL, tags |-> Val(<<[name |-> "rock"], [name |-> "indie"]>>)]
    ELSE IF shape = "untyped"
    THEN [name |-> name, area |-> Val([name |-> Val("Europe"), type |-> Val(JsonNull)]),
          begin_area |-> NULL, tags |-> Val(<<[name |-> "rock"]>>)]
    ELSE IF shape = "begin"
    THEN [name |-> name, area |-> NULL,
          begin_area |-> Val([name |-> Val("Leeds"), type |-> NULL]), tags |-> Val(<<>>)]
    ELSE [name |-> name, area |-> NULL, begin_area |-> NULL, tags |-> NULL]

RECURSIVE SetToSeq(_)
SetToSeq(S) ==
    IF S = {} THEN <<>>
    ELSE LET x == CHOOSE y \in S : TRUE IN <<x>> \o SetToSeq(S \ {x})

Range(f) == {f[k] : k \in DOMAIN f}

\* the responses the search can give for a query: any of the names asked
\* for may be absent from it
MbResponses(artist_names) ==
    {[artists |-> [k \in 1..Len(SetToSeq(S)) |-> MbArtist(SetToSeq(S)[k], shape)]] :
        S \in SUBSET Range(artist_names), shape \in MbShapes}

\* x.get(key, "Unknown") on an optional field
OrUnknown(v) == IF v = NULL THEN "Unknown" ELSE v[1]

\* the entry of organized_data for one artist object
Organize(artist) ==
    LET area_info == IF artist.area # NULL THEN artist.area ELSE artist.begin_area
        area_name == IF area_info # NULL THEN OrUnknown(area_info[1].name) ELSE "Unknown"
        area_type == IF area_info # NULL THEN OrUnknown(area_info[1].type) ELSE "Unknown"
        genres == IF artist.tags # NULL /\ artist.tags[1] # <<>>
                  THEN [k \in 1..Len(artist.tags[1]) |-> artist.tags[1][k].name]
                  ELSE <<"Unknown">>
    IN  [area |-> <<area_name, area_type>>, genres |-> genres]

\* organized_data: artist name -> ((area_name, area_type), [genres]); a later
\* object of the same name overwrites an earlier one
OrganizedData(data) ==
    [n \in {data.artists[k].name : k \in DOMAIN data.artists} |->
        Organize(data.artists[
            CHOOSE k \in DOMAIN data.artists :
                /\ data.artists[k].name = n
                /\ \A j \in DOMAIN data.artists : data.artists[j].name = n => j <= k])]

\* random.uniform(0, 1), in tenths of a second
Jitter == {0, Second}

\* to get_artist_data_batch a 429 is one more error status
MbOutcomes == {o \in Outcomes : o.kind # "http429"}

\* get_artist_data_batch(artist_names, retries), as far as the first HTTP
\* attempt: its own one-second limiter comes first
Call_get_artist_data_batch(artist_names, r) ==
    LET cur_time == now
        ts == CleanOld(timestamps, cur_time, Second)
    IN  /\ timestamps' = ts
        /\ now' = IF Len(ts) >= 1 THEN cur_time + (Second - (cur_time - Head(ts))) ELSE cur_time
        /\ fop' = "get_artist_data_batch"
        /\ fargs' = [artist_names |-> artist_names]
        /\ retries' = r
        /\ attempt' = 0
        /\ log' = <<>>
        /\ IF r > 0 THEN fpc' = "request" /\ fresult' = NULL
           ELSE Return(Val(<<>>))
        /\ UNCHANGED <<offset, total, items>>

\* one iteration of the retry loop of get_artist_data_batch: every error,
\* an HTTP status included, is a RequestException
MbRequest ==
    /\ fpc = "request"
    /\ fop = "get_artist_data_batch"
    /\ \E o \in MbOutcomes :
        /\ Consume(o)
        /\ log' = Append(log, HttpEvent(o))
        /\ IF o.kind = "ok"
           THEN /\ \E data \in MbResponses(fargs.artist_names) :
                       Return(Val(OrganizedData(data)))
                /\ timestamps' = Append(timestamps, now)
                /\ UNCHANGED <<attempt, now>>
           ELSE /\ \E j \in Jitter : now' = now + Backoff(attempt) + j
                /\ attempt' = attempt + 1
                /\ IF attempt + 1 < retries
                   THEN UNCHANGED <<fpc, fresult>>
                   ELSE Return(Val(<<>>))
                /\ UNCHANGED timestamps
    /\ UNCHANGED <<halfmin_timestamps, hourly_timestamps, daily_timestamps, total_requests>>
    /\ UNCHANGED <<fop, fargs, retries, offset, total, items>>

\* the statements of one iteration of "for (artist_id, artist_name) in
\* artist_data" of save_artist_data_to_db
save_artist(artist_id, artist_name, fetched_data) ==
    LET e == IF artist_name \in DOMAIN fetched_data
             THEN fetched_data[artist_name]
             ELSE [area |-> <<"Unknown", "Unknown">>, genres |-> <<"Unknown">>]
    IN  IF e.area[1] = JsonNull \/ e.area[2] = JsonNull
        THEN \* "WHERE name = ? AND type = ?" finds no row: continue
             <<[op |-> "ignore_area", name |-> e.area[1], type |-> e.area[2]]>>
        ELSE <<[op |-> "ignore_area", name |-> e.area[1], type |-> e.area[2]],
               [op |-> "update_area_id", artist_id |-> artist_id,
                name |-> e.area[1], type |-> e.area[2]]>>
             \o Flatten([k \in 1..Len(e.genres) |-> GenreStmts(artist_id, e.genres[k])])

save_artist_data_to_db(artist_data, fetched_data) ==
    Flatten([k \in 1..Len(artist_data) |->
                save_artist(artist_data[k][1], artist_data[k][2], fetched_data)])

(***************************************************************************)
(* One call of a fetch function, the provider answering as it likes.       *)
(***************************************************************************)
MaxRetries == 3
MaxFetchFailures == 5

\* id lists of every length up to one past the largest batch size
SomeIds(id, n) == [k \in 1..n |-> id]
BatchCalls ==
    {[item_type |-> "track", item_ids |-> <<"t1", "t2">>],
     [item_type |-> "album", item_ids |-> <<"al1">>],
     [item_type |-> "artist", item_ids |-> <<"a2", "a1">>],
     [item_type |-> "track", item_ids |-> <<>>],
     [item_type |-> "playlist", item_ids |-> <<"p1">>],
     [item_type |-> "album", item_ids |-> SomeIds("al1", max_sizes("album"))],
     [item_type |-> "album", item_ids |-> SomeIds("al1", max_sizes("album") + 1)],
     [item_type |-> "track", item_ids |-> SomeIds("t1", max_sizes("track") + 1)]}

InitFetch ==
    /\ InitLimiterVars
    /\ InitFetchIdle
    /\ budget = MaxFetchFailures
    /\ timestamps \in {<<>>, <<0>>}
    /\ InitStoreIdle
    /\ InitSchedIdle
    /\ InitMbIdle
    /\ InitPersistIdle

FetchCall ==
    /\ fpc = "idle"
    /\ \E r \in 1..MaxRetries :
        \/ /\ \E c \in BatchCalls : Call_get_batch_info(c.item_type, c.item_ids, r)
           /\ UNCHANGED <<limVars, timestamps>>
        \/ /\ \E t \in {"track", "playlist", "show"} : Call_get_info(t, "x1", r)
           /\ UNCHANGED <<limVars, timestamps>>
        \/ /\ Call_paginated("get_user_saved", "", r)
           /\ UNCHANGED <<limVars, timestamps>>
        \/ /\ \E a \in ArtistIds : Call_paginated("get_artist_albums", a, r)
           /\ UNCHANGED <<limVars, timestamps>>
        \/ /\ Call_get_artist_data_batch(<<"A1", "A2">>, r)
           /\ UNCHANGED <<halfmin_timestamps, hourly_timestamps, daily_timestamps, total_requests>>
    /\ UNCHANGED <<budget, storeVars, schedVars, mbVars, persistVars>>

Others == <<storeVars, schedVars, mbVars, persistVars>>

NextFetch ==
    \/ FetchCall
    \/ FetchLimit /\ UNCHANGED Others
    \/ BatchRequest /\ UNCHANGED Others
    \/ AlbumsRequest /\ UNCHANGED Others
    \/ SavedRequest /\ UNCHANGED Others
    \/ MbRequest /\ UNCHANGED Others

SpecFetch == InitFetch /\ [][NextFetch]_vars

\* the HTTP attempts of the call, as positions of its history
HttpIdx == {k \in 1..Len(log) : log[k].ev = "http"}
NextHttp(k, j) == j \in HttpIdx /\ j > k /\ \A m \in HttpIdx : ~(k < m /\ m < j)

\* C2: every HTTP attempt of get_batch_info, get_artist_albums and
\* get_user_saved, retried attempts included, directly follows a
\* check_rate_limit call of its own, so the attempts never outnumber the
\* limiter's admissions.
C2_EveryAttemptGated ==
    fop \in {"get_batch_info", "get_artist_albums", "get_user_saved"} =>
        /\ \A k \in HttpIdx : k > 1 /\ log[k - 1].ev = "limit"
        /\ Cardinality(HttpIdx) <= total_requests

\* C3: when every attempt fails with a transport-level error, get_batch_info,
\* get_artist_albums and get_artist_data_batch make at most `retries`
\* attempts and have returned their empty result once the budget is spent.
C3_TransportBudget ==
    (/\ fop \in {"get_batch_info", "get_artist_albums", "get_artist_data_batch"}
     /\ \A k \in HttpIdx : log[k].outcome = "transport")
    => /\ Cardinality(HttpIdx) <= retries
       /\ Cardinality(HttpIdx) = retries =>
            /\ fpc = "returned"
            /\ fresult = IF fop = "get_batch_info" THEN NULL
                         ELSE IF fop = "get_artist_albums" THEN Val(items)
                         ELSE Val(<<>>)

\* C4: an HTTP error status other than 429 ends get_batch_info and get_info
\* at once: it is the last attempt of the call, which returns None.
C4_HardErrorAbandons ==
    fop \in {"get_batch_info", "get_info"} =>
        \A k \in HttpIdx : log[k].outcome = "http_error" =>
            /\ \A j \in HttpIdx : j <= k
            /\ fpc = "returned"
            /\ fresult = NULL

\* C5: a 429 answered to get_batch_info while budget remains is followed by
\* exactly one further attempt, made no sooner than Retry-After seconds
\* later and numbered one higher; the call never makes more than `retries`
\* attempts, and returns None when all of them were answered 429.
C5_RetryAfterHonoured ==
    fop = "get_batch_info" =>
        /\ Cardinality(HttpIdx) <= retries
        /\ \A k \in HttpIdx :
              (log[k].outcome = "http429" /\ log[k].attempt < retries - 1) =>
                  /\ fpc \in {"returned", "raised"} => \E j \in HttpIdx : j > k
                  /\ \A j \in HttpIdx : NextHttp(k, j) =>
                        /\ log[j].at - log[k].at >= log[k].hint * Second
                        /\ log[j].attempt = log[k].attempt + 1
        /\ (/\ fpc = "returned"
            /\ HttpIdx # {}
            /\ \A k \in HttpIdx : log[k].outcome = "http429")
           => fresult = NULL /\ Cardinality(HttpIdx) = retries

C5_Witness ==
    /\ fop = "get_batch_info"
    /\ fpc = "returned"
    /\ \E k \in HttpIdx, j \in HttpIdx :
          /\ NextHttp(k, j)
          /\ log[k].outcome = "http429"
          /\ log[k].hint = 2
          /\ log[j].at - log[k].at >= 2 * Second

(***************************************************************************)
(* The stage scheduler (spot_load.py:705-823)                              *)
(***************************************************************************)
Stages == {"tracks", "albums", "artists"}

ItemType(stage) ==
    IF stage = "tracks" THEN "track" ELSE IF stage = "albums" THEN "album" ELSE "artist"

\* a variant with LIMIT 50 in every stage
PageLimitFifty(stage) == 50

\* LIMIT 50 / LIMIT 20 / LIMIT 50 of the stage queries
PageLimit(stage) == IF stage = "albums" THEN 20 ELSE 50

\* a variant that commits after every page of every stage
CommitEveryPage(stage) == 1

\* "if i % 20 == 0" / "if i % 20 == 0" / "if i % 1 == 0"
CommitEvery(stage) == IF stage = "artists" THEN 1 ELSE 20

\* a variant that hands over from tracks to artists and from artists to albums
NextTypeArtistsFirst(stage) ==
    IF stage = "tracks" THEN "artists" ELSE IF stage = "artists" THEN "albums" ELSE "tracks"

\* check_type once the stage found nothing to update
NextType(stage) ==
    IF stage = "tracks" THEN "albums" ELSE IF stage = "albums" THEN "artists" ELSE "tracks"

\* where control goes when the stage's loop is left
AfterStage(stage) ==
    IF stage = "tracks" THEN "albums"
    ELSE IF stage = "albums" THEN "artists"
    ELSE IF check_albums THEN "artist_albums"
    ELSE "term"

Fetching(stage) == stage \o "_fetch"

\* SELECT id FROM <table> WHERE name IS NULL
Incomplete(d, stage) ==
    LET table == IF stage = "tracks" THEN d.Track
                 ELSE IF stage = "albums" THEN d.Album
                 ELSE d.Artist
    IN  {r.id : r \in {x \in table : x.name = NULL}}

\* SELECT id FROM Artist WHERE retrieved_albums IS 0
NotRetrieved(d) == {r.id : r \in {x \in d.Artist : x.retrieved_albums = 0}}

RECURSIVE Perms(_)
Perms(S) ==
    IF S = {} THEN {<<>>}
    ELSE UNION {{<<x>> \o q : q \in Perms(S \ {x})} : x \in S}

Min(a, b) == IF a < b THEN a ELSE b

\* the albums of a long listing of artist a1: one more than the albums
\* stage works through between two of its periodic commits
BacklogAlbums ==
    [k \in 1..(PageLimit("albums") * CommitEvery("albums") + 1) |->
        [id |-> "b" \o ToString(k)]]

\* the ids of the model in the order of the tables' rows
RowOrder ==
    <<"t1", "t2", "t3", "al1", "al2", "al3", "a1", "a2">>
    \o [k \in 1..Len(BacklogAlbums) |-> BacklogAlbums[k].id]

\* the largest number of rows for which every page and every order of
\* ORDER BY RANDOM() is explored
MaxShuffle == 3

\* the pages a query with LIMIT can return: any `limit` of the rows (all of
\* them when there are fewer), in any order; of more than MaxShuffle rows,
\* one page in one order
Pages(S, limit) ==
    IF Cardinality(S) <= MaxShuffle
    THEN UNION {Perms(T) : T \in {U \in SUBSET S : Cardinality(U) = Min(limit, Cardinality(S))}}
    ELSE LET q == SelectSeq(RowOrder, LAMBDA x : x \in S)
         IN  {SubSeq(q, 1, Min(limit, Len(q)))}

\* dump_tracks(cursor, track_batch['tracks']) and its two siblings
Dump(stage, payload) ==
    IF stage = "tracks" THEN dump_tracks(payload)
    ELSE IF stage = "albums" THEN dump_albums(payload)
    ELSE dump_artists(payload)

\* a variant of the final test that forgets the artists' album retrieval
AllUpdatedNamesOnly(d) ==
    /\ Incomplete(d, "tracks") = {}
    /\ Incomplete(d, "albums") = {}
    /\ Incomplete(d, "artists") = {}

\* a variant that also waits for every artist's area
AllUpdatedWithAreas(d) ==
    /\ Incomplete(d, "tracks") = {}
    /\ Incomplete(d, "albums") = {}
    /\ {r \in d.Artist : r.name = NULL \/ r.retrieved_albums = 0 \/ r.area_id = NULL} = {}

\* the three COUNT queries before "All items updated."
AllUpdated(d) ==
    /\ Cardinality({r \in d.Track : r.name = NULL}) = 0
    /\ Cardinality({r \in d.Album : r.name = NULL}) = 0
    /\ Cardinality({r \in d.Artist : r.name = NULL \/ r.retrieved_albums = 0}) = 0

\* a variant that writes the request count and no timestamps
SavedLogCountOnly(L) ==
    Val([total_requests |-> L.total_requests,
         halfmin_timestamps |-> <<>>,
         hourly_timestamps |-> <<>>,
         daily_timestamps |-> <<>>])

\* save_request_log(), the limiter's globals being L
SavedLogOf(L) ==
    Val([total_requests |-> L.total_requests,
         halfmin_timestamps |-> L.halfmin_timestamps,
         hourly_timestamps |-> L.hourly_timestamps,
         daily_timestamps |-> L.daily_timestamps])

SavedLog == SavedLogOf(LimState)

\* finally: conn.commit(); conn.close(); save_request_log()
Finally(d, where) ==
    /\ db' = d
    /\ committed' = d
    /\ request_log' = SavedLog
    /\ pos' = where

Running ==
    pos \in Stages \cup {Fetching(st) : st \in Stages}
            \cup {"artist_albums", "artist_albums_fetch", "term"}

\* the result of the fetch has been taken
Consumed ==
    /\ fpc' = "idle"
    /\ UNCHANGED <<fop, fargs, retries, attempt, offset, total, items, fresult, log, budget>>

\* a variant of the page handling that gives up the stage when the fetch
\* returned nothing
AfterPageGiveUp(stage) == IF fresult = NULL THEN AfterStage(stage) ELSE stage

\* where control goes after a page was handled
AfterPage(stage) == stage

\* one pass through the top of a stage loop: the test of check_type, the
\* page query and, for a page that is not empty, the call of get_batch_info
StageSelect(stage) ==
    /\ pos = stage
    /\ IF check_type # stage
       THEN /\ pos' = AfterStage(stage)
            /\ i' = 1
            /\ UNCHANGED <<fetchVars, storeVars, check_type, page, request_log>>
       ELSE \E ids \in Pages(Incomplete(db, stage), PageLimit(stage)) :
              /\ page' = ids
              /\ IF Len(ids) > 0
                 THEN /\ Call_get_batch_info(ItemType(stage), ids, DefaultRetries)
                      /\ pos' = Fetching(stage)
                      /\ UNCHANGED <<budget, storeVars, check_type, i, request_log>>
                 ELSE /\ committed' = db
                      /\ check_type' = NextType(stage)
                      /\ pos' = AfterStage(stage)
                      /\ i' = 1
                      /\ UNCHANGED <<fetchVars, db, request_log>>
    /\ UNCHANGED <<limVars, timestamps, check_albums, restarts, mbVars, persistVars>>

\* the rest of the loop body once get_batch_info has returned: the dump,
\* the commit every few pages, the increment of i.  An exception of the dump
\* is not caught: it leaves through the finally clause.
StageFetched(stage) ==
    /\ pos = Fetching(stage)
    /\ fpc = "returned"
    /\ LET r == Run(db, IF fresult = NULL THEN <<>> ELSE Dump(stage, fresult[1]))
       IN  IF r.raised
           THEN /\ Finally(r.db, "crashed")
                /\ UNCHANGED i
           ELSE /\ db' = r.db
                /\ committed' = IF i % CommitEvery(stage) = 0 THEN r.db ELSE committed
                /\ i' = i + 1
                /\ pos' = AfterPage(stage)
                /\ UNCHANGED request_log
    /\ Consumed
    /\ UNCHANGED <<limVars, timestamps, check_type, check_albums, page, restarts, mbVars, persistVars>>

\* the statements run for one artist of the artist-albums stage
ArtistAlbumsStmts(albums, artist_id) ==
    dump_artist_albums(albums)
    \o <<[op |-> "update_retrieved_albums", artist_id |-> artist_id]>>

\* the top of the artist-albums loop, as far as the first call of
\* get_artist_albums
ArtistAlbumsSelect ==
    /\ pos = "artist_albums"
    /\ \E ids \in Pages(NotRetrieved(db), ListingLimit) :
          /\ page' = ids
          /\ IF Len(ids) > 0
             THEN /\ Call_paginated("get_artist_albums", ids[1], DefaultRetries)
                  /\ pos' = "artist_albums_fetch"
                  /\ UNCHANGED <<budget, storeVars, check_type, request_log>>
             ELSE /\ committed' = db
                  /\ check_type' = "tracks"
                  /\ pos' = "term"
                  /\ UNCHANGED <<fetchVars, db, request_log>>
    /\ UNCHANGED <<limVars, timestamps, check_albums, i, restarts, mbVars, persistVars>>

\* get_artist_albums has returned for the artist at the head of the page:
\* the inserts, the UPDATE, then the next artist or the commit
ArtistAlbumsFetched ==
    /\ pos = "artist_albums_fetch"
    /\ fpc = "returned"
    /\ db' = Run(db, ArtistAlbumsStmts(fresult[1], Head(page))).db
    /\ IF Len(page) > 1
       THEN /\ page' = Tail(page)
            /\ Call_paginated("get_artist_albums", page[2], DefaultRetries)
            /\ UNCHANGED <<budget, committed, pos>>
       ELSE /\ committed' = db'
            /\ pos' = "artist_albums"
            /\ Consumed
            /\ UNCHANGED page
    /\ UNCHANGED <<limVars, timestamps, check_type, check_albums, i, request_log,
                   restarts, mbVars, persistVars>>

\* the end of the outer loop: the default of check_type and the test that
\* everything is updated
TermCheck ==
    /\ pos = "term"
    /\ check_type' = IF check_type \notin Stages THEN "tracks" ELSE check_type
    /\ IF AllUpdated(db)
       THEN Finally(db, "done")
       ELSE /\ pos' = "tracks"
            /\ UNCHANGED <<storeVars, request_log>>
    /\ i' = 1
    /\ UNCHANGED <<limVars, timestamps, fetchVars, check_albums, page, restarts, mbVars, persistVars>>

\* the statements of the persist the scheduler is about to run
Pending ==
    IF pos = "artist_albums_fetch" THEN ArtistAlbumsStmts(fresult[1], Head(page))
    ELSE IF fresult = NULL THEN <<>>
    ELSE Dump(CHOOSE st \in Stages : pos = Fetching(st), fresult[1])

\* KeyboardInterrupt between two steps of the scheduler
Interrupt ==
    /\ Running
    /\ Finally(db, "exited")
    /\ UNCHANGED <<limVars, timestamps, fetchVars, check_type, check_albums, i, page,
                   restarts, mbVars, persistVars>>

\* KeyboardInterrupt between two statements of a persist
InterruptInPersist ==
    /\ pos \in {Fetching(st) : st \in Stages} \cup {"artist_albums_fetch"}
    /\ fpc = "returned"
    /\ \E n \in 1..(Len(Pending) - 1) :
          Finally(Run(db, SubSeq(Pending, 1, n)).db, "exited")
    /\ UNCHANGED <<limVars, timestamps, fetchVars, check_type, check_albums, i, page,
                   restarts, mbVars, persistVars>>

\* the sequence without its last element
Front(q) == SubSeq(q, 1, Len(q) - 1)

\* KeyboardInterrupt inside check_rate_limit(): the old timestamps are
\* evicted, the call is in one of its sleeps (m = 0) or has appended to the
\* first m of the three deques, and total_requests is not yet incremented
InterruptInLimiter ==
    /\ Running
    /\ fpc = "limit"
    /\ \E m \in 0..3 :
          LET L == check_rate_limit(LimState)
              P == [now |-> L.now,
                    halfmin_timestamps |->
                        IF m >= 1 THEN L.halfmin_timestamps ELSE Front(L.halfmin_timestamps),
                    hourly_timestamps |->
                        IF m >= 2 THEN L.hourly_timestamps ELSE Front(L.hourly_timestamps),
                    daily_timestamps |->
                        IF m >= 3 THEN L.daily_timestamps ELSE Front(L.daily_timestamps),
                    total_requests |-> total_requests]
          IN  /\ SetLim(P)
              /\ request_log' = SavedLogOf(P)
    /\ db' = db
    /\ committed' = db
    /\ pos' = "exited"
    /\ UNCHANGED <<timestamps, fetchVars, check_type, check_albums, i, page,
                   restarts, mbVars, persistVars>>

MaxFailures == 3
CheckTypes == {"tracks", "albums", "artists", "n"}
SavedLists == {<<>>, <<[track |-> TrackInfo("t1")]>>, <<[track |-> TrackInfo("t3")]>>}

\* the store once the initial dump of the user's saved tracks is committed
Init ==
    /\ InitLimiterVars
    /\ InitFetchIdle
    /\ budget = MaxFailures
    /\ timestamps = <<>>
    /\ \E saved \in SavedLists : db = Run(EmptyStore, dump_user_saved(saved)).db
    /\ committed = db
    /\ check_type \in CheckTypes
    /\ check_albums \in BOOLEAN
    /\ pos = "tracks"
    /\ i = 1
    /\ page = <<>>
    /\ request_log = NULL
    /\ restarts = 0
    /\ InitMbIdle
    /\ InitPersistIdle

SchedIdle == <<storeVars, schedVars, mbVars, persistVars>>

\* the scheduler started on the store an earlier run left behind: the saved
\* track t1, and the album placeholders of a1's long listing; the provider
\* answers every request
InitBacklog ==
    /\ InitLimiterVars
    /\ InitFetchIdle
    /\ budget = 0
    /\ timestamps = <<>>
    /\ db = Run(EmptyStore,
                dump_user_saved(<<[track |-> TrackInfo("t1")]>>)
                \o ArtistAlbumsStmts(BacklogAlbums, "a1")).db
    /\ committed = db
    /\ check_type \in {"tracks", "albums"}
    /\ check_albums \in BOOLEAN
    /\ pos = "tracks"
    /\ i = 1
    /\ page = <<>>
    /\ request_log = NULL
    /\ restarts = 0
    /\ InitMbIdle
    /\ InitPersistIdle

Next ==
    \/ \E st \in Stages : StageSelect(st)
    \/ \E st \in Stages : StageFetched(st)
    \/ ArtistAlbumsSelect
    \/ ArtistAlbumsFetched
    \/ TermCheck
    \/ Interrupt
    \/ InterruptInPersist
    \/ InterruptInLimiter
    \/ Running /\ FetchLimit /\ UNCHANGED SchedIdle
    \/ Running /\ BatchRequest /\ UNCHANGED SchedIdle
    \/ Running /\ AlbumsRequest /\ UNCHANGED SchedIdle

Spec == Init /\ [][Next]_vars

SpecBacklog == InitBacklog /\ [][Next]_vars

(***************************************************************************)
(* The scheduler left to run: nobody interrupts it, the providers fail a   *)
(* bounded number of times and answer every request after that.            *)
(***************************************************************************)
MaxProgressFailures == 1

\* the stores a run can start on, over the ids t1, t2, al1, a1: nothing,
\* the saved track t1, one placeholder of a table, or the artist a1 whose
\* albums were listed before its details were fetched
ProgressStores ==
    {Run(EmptyStore, stmts).db :
        stmts \in {<<>>,
                   dump_user_saved(<<[track |-> TrackInfo("t1")]>>),
                   <<[op |-> "ignore_track", id |-> "t2"]>>,
                   <<[op |-> "ignore_album", id |-> "al1"]>>,
                   <<[op |-> "ignore_artist", id |-> "a1"]>>,
                   <<[op |-> "ignore_artist", id |-> "a1"]>>
                       \o ArtistAlbumsStmts(<<>>, "a1")}}

InitProgress ==
    /\ InitLimiterVars
    /\ InitFetchIdle
    /\ budget = MaxProgressFailures
    /\ timestamps = <<>>
    /\ db \in ProgressStores
    /\ committed = db
    /\ check_type \in CheckTypes
    /\ check_albums \in BOOLEAN
    /\ pos = "tracks"
    /\ i = 1
    /\ page = <<>>
    /\ request_log = NULL
    /\ restarts = 0
    /\ InitMbIdle
    /\ InitPersistIdle

NextProgress ==
    \/ \E st \in Stages : StageSelect(st)
    \/ \E st \in Stages : StageFetched(st)
    \/ ArtistAlbumsSelect
    \/ ArtistAlbumsFetched
    \/ TermCheck
    \/ Running /\ FetchLimit /\ UNCHANGED SchedIdle
    \/ Running /\ BatchRequest /\ UNCHANGED SchedIdle
    \/ Running /\ AlbumsRequest /\ UNCHANGED SchedIdle

\* StageFetched can be taken exactly when get_batch_info has returned to a
\* stage loop
StageFetchedEnabled == \E st \in Stages : pos = Fetching(st) /\ fpc = "returned"

\* the process is never held up: a step that can be taken is taken (weak
\* fairness of every step; for StageFetched with its enabling condition
\* written out)
Unhindered ==
    /\ WF_vars(\E st \in Stages : StageSelect(st))
    /\ ([]<>(~StageFetchedEnabled) \/ []<><<\E st \in Stages : StageFetched(st)>>_vars)
    /\ WF_vars(ArtistAlbumsSelect)
    /\ WF_vars(ArtistAlbumsFetched)
    /\ WF_vars(TermCheck)
    /\ WF_vars(Running /\ FetchLimit /\ UNCHANGED SchedIdle)
    /\ WF_vars(Running /\ BatchRequest /\ UNCHANGED SchedIdle)
    /\ WF_vars(Running /\ AlbumsRequest /\ UNCHANGED SchedIdle)

SpecProgress == InitProgress /\ [][NextProgress]_vars /\ Unhindered

\* C6: the scheduler is done only with a store in which no Track, Album or
\* Artist lacks its name and no Artist has retrieved_albums = 0; with any of
\* these left at the end of a cycle it goes round again.
C6_Quiescent ==
    /\ \A r \in db.Track : r.name # NULL
    /\ \A r \in db.Album : r.name # NULL
    /\ \A r \in db.Artist : r.name # NULL /\ r.retrieved_albums # 0

C6_DoneOnlyWhenAllUpdated ==
    /\ [](pos = "done" => C6_Quiescent)
    /\ [][(pos = "term" /\ ~C6_Quiescent) => pos' \in {"tracks", "exited"}]_vars

C6_Witness ==
    /\ pos = "done"
    /\ db.Track # {}
    /\ \E r \in db.Artist : r.retrieved_albums = 1

\* C7: a page of the tracks, albums or artists stage whose fetch returned
\* None leaves the store as it was, every item of the page still without
\* its name, and the scheduler in the same stage.
C7_FailedPageLeavesStore ==
    [][\A st \in Stages :
          (pos = Fetching(st) /\ fpc = "returned" /\ fresult = NULL /\ pos' # "exited")
          => /\ db' = db
             /\ pos' = st
             /\ check_type' = st
             /\ \A k \in 1..Len(page) : page[k] \in Incomplete(db', st)]_vars

C7_Witness ==
    /\ pos \in Stages
    /\ check_type = pos
    /\ fop = "get_batch_info"
    /\ fpc = "idle"
    /\ fresult = NULL
    /\ Cardinality(HttpIdx) = DefaultRetries
    /\ page # <<>>
    /\ \A k \in 1..Len(page) : page[k] \in Incomplete(db, pos)

\* C8: an artist whose album listing was abandoned before the
\* provider-reported total was reached keeps retrieved_albums = 0.
C8_AbandonedListingStaysIncomplete ==
    (/\ pos = "artist_albums"
     /\ fop = "get_artist_albums"
     /\ fpc = "idle"
     /\ offset < total)
    => \E r \in db.Artist : r.id = fargs.artist_id /\ r.retrieved_albums = 0

(***************************************************************************)
(* The enrichment loop (musicbrainz_load.py:94-138)                        *)
(***************************************************************************)
\* the rows of the LEFT JOIN for one artist: one per ArtistGenre edge, or
\* one with the edge columns NULL
JoinRows(d, r) ==
    LET edges == Cardinality({e \in d.ArtistGenre : e[1] = r.id})
    IN  IF r.name = NULL THEN <<>>
        ELSE IF edges = 0 THEN <<<<r.id, r.name[1]>>>>
        ELSE IF r.area_id = NULL THEN [k \in 1..edges |-> <<r.id, r.name[1]>>]
        ELSE <<>>

\* SELECT A.id, A.name ... WHERE (A.area_id IS NULL OR AG.artist_id IS NULL)
\* AND A.name IS NOT NULL LIMIT ?
MbQuery(d, limit) ==
    LET rows == Flatten([k \in 1..Cardinality(d.Artist) |-> JoinRows(d, SetToSeq(d.Artist)[k])])
    IN  SubSeq(rows, 1, Min(limit, Len(rows)))

MbRunning == mpc \in {"select", "fetch"}

\* the loop is followed through this many batches (counted in i)
MaxMbBatches == 2

\* the query and, for a batch that is not empty, the call of
\* get_artist_data_batch; an empty batch ends the loop
MbSelect ==
    /\ mpc = "select"
    /\ i < MaxMbBatches
    /\ artist_batch' = MbQuery(db, BATCH_SIZE)
    /\ IF artist_batch' = <<>>
       THEN /\ mpc' = "done"
            /\ committed' = db
            /\ UNCHANGED <<now, timestamps, fetchVars>>
       ELSE /\ Call_get_artist_data_batch(
                   [k \in 1..Len(artist_batch') |-> artist_batch'[k][2]], MbDefaultRetries)
            /\ mpc' = "fetch"
            /\ UNCHANGED <<budget, committed>>
    /\ UNCHANGED <<halfmin_timestamps, hourly_timestamps, daily_timestamps, total_requests>>
    /\ UNCHANGED <<db, schedVars, persistVars>>

\* save_artist_data_to_db(cursor, artist_batch, fetched_results); conn.commit()
MbSave ==
    /\ mpc = "fetch"
    /\ fpc = "returned"
    /\ db' = Run(db, save_artist_data_to_db(artist_batch, fresult[1])).db
    /\ committed' = db'
    /\ mpc' = "select"
    /\ i' = i + 1
    /\ Consumed
    /\ UNCHANGED <<limVars, timestamps, check_type, check_albums, pos, page, request_log,
                   restarts, artist_batch, persistVars>>

\* KeyboardInterrupt: finally: conn.commit(); conn.close()
MbInterrupt ==
    /\ MbRunning
    /\ committed' = db
    /\ mpc' = "exited"
    /\ UNCHANGED <<limVars, timestamps, fetchVars, db, schedVars, artist_batch, persistVars>>

MaxMbFailures == 5

\* stores the loader of spot_load.py leaves behind: artists with a name and
\* genres, with a name and no genre, and without a name
MbStores ==
    {Run(EmptyStore, dump_user_saved(<<[track |-> TrackInfo("t3")]>>) \o dump_artists(as)).db :
        as \in {<<ArtistInfo("a1")>>,
                <<ArtistInfo("a1"), ArtistInfo("a2")>>,
                <<[ArtistInfo("a1") EXCEPT !.genres = <<>>], ArtistInfo("a2")>>}}

InitMb ==
    /\ InitLimiterVars
    /\ InitFetchIdle
    /\ budget = MaxMbFailures
    /\ timestamps = <<>>
    /\ db \in MbStores
    /\ committed = db
    /\ InitSchedIdle
    /\ mpc = "select"
    /\ artist_batch = <<>>
    /\ InitPersistIdle

NextMb ==
    \/ MbSelect
    \/ MbSave
    \/ MbInterrupt
    \/ MbRunning /\ MbRequest /\ UNCHANGED <<storeVars, schedVars, mbVars, persistVars>>

SpecMb == InitMb /\ [][NextMb]_vars

\* C9: after get_artist_data_batch gave up and returned its empty result,
\* every artist of the batch is as incomplete as before: it still lacks its
\* area_id or any ArtistGenre edge.
C9_ExhaustedBatchStaysIncomplete ==
    (/\ mpc = "select"
     /\ fop = "get_artist_data_batch"
     /\ fpc = "idle"
     /\ fresult = Val(<<>>)
     /\ Cardinality(HttpIdx) = retries
     /\ \A k \in HttpIdx : log[k].outcome # "ok")
    => \A k \in 1..Len(artist_batch) :
          \E r \in db.Artist :
             /\ r.id = artist_batch[k][1]
             /\ \/ r.area_id = NULL
                \/ ~\E e \in db.ArtistGenre : e[1] = r.id

(***************************************************************************)
(* The persisters on their own: a persister is applied to a store, and     *)
(* then once more with the same input.                                     *)
(***************************************************************************)
MaxPersists == 2

\* an album object with a full release date
AlbumFullDate == [AlbumInfo("al1") EXCEPT !.release_date = "2001-05-17"]

\* what get_artist_albums returns when every page is answered
WholeListing(artist_id) ==
    AlbumListing(artist_id, 0).items \o AlbumListing(artist_id, ListingLimit).items

PersistInputs ==
    {[persister |-> "dump_tracks", input |-> ts, stmts |-> dump_tracks(ts)] :
        ts \in {<<TrackInfo("t1")>>, <<TrackInfo("t3"), TrackInfo("t2")>>,
                <<TrackInfo("t3"), TrackNoPopularity, TrackInfo("t2")>>}}
    \cup {[persister |-> "dump_albums", input |-> als, stmts |-> dump_albums(als)] :
        als \in {<<AlbumInfo("al1")>>, <<AlbumFullDate>>, <<AlbumInfo("al2"), AlbumInfo("al3")>>}}
    \cup {[persister |-> "dump_artists", input |-> as, stmts |-> dump_artists(as)] :
        as \in {<<ArtistInfo("a1")>>, <<ArtistInfo("a2"), ArtistInfo("a1")>>}}
    \cup {[persister |-> "dump_artist_albums", input |-> WholeListing(a),
           stmts |-> ArtistAlbumsStmts(WholeListing(a), a)] : a \in ArtistIds}
    \cup {[persister |-> "save_artist_data_to_db", input |-> data,
           stmts |-> save_artist_data_to_db(<<<<"a1", "A1">>, <<"a2", "A2">>>>, OrganizedData(data))] :
        data \in MbResponses(<<"A1">>)}

InitPersist ==
    /\ InitLimiterVars
    /\ InitFetchIdle
    /\ budget = 0
    /\ timestamps = <<>>
    /\ db = EmptyStore
    /\ committed = db
    /\ InitSchedIdle
    /\ InitMbIdle
    /\ pjob = [persister |-> "none", input |-> <<>>, stmts |-> <<>>, raised |-> FALSE,
               count |-> 0, fresh |-> 0]
    /\ once = NULL

\* a persister is applied to the store
PersistFresh ==
    /\ pjob.fresh < MaxPersists
    /\ \E in \in PersistInputs :
          /\ db' = Run(db, in.stmts).db
          /\ once' = Val(db')
          /\ pjob' = [persister |-> in.persister, input |-> in.input, stmts |-> in.stmts,
                      raised |-> Run(db, in.stmts).raised,
                      count |-> 1, fresh |-> pjob.fresh + 1]
    /\ UNCHANGED <<limVars, timestamps, fetchVars, committed, schedVars, mbVars>>

\* the same persister is applied again with the same input
PersistAgain ==
    /\ pjob.count = 1
    /\ db' = Run(db, pjob.stmts).db
    /\ pjob' = [pjob EXCEPT !.count = 2]
    /\ UNCHANGED <<limVars, timestamps, fetchVars, committed, schedVars, mbVars, once>>

\* a persister is stopped between two of its statements (an interrupt, or
\* the end of the process): the statements before that point are applied
PersistInterrupted ==
    /\ pjob.fresh < MaxPersists
    /\ \E in \in PersistInputs :
          \E n \in 1..(Len(in.stmts) - 1) :
             /\ db' = Run(db, SubSeq(in.stmts, 1, n)).db
             /\ pjob' = [persister |-> in.persister, input |-> in.input,
                         stmts |-> SubSeq(in.stmts, 1, n), raised |-> FALSE,
                         count |-> 0, fresh |-> pjob.fresh + 1]
    /\ UNCHANGED <<limVars, timestamps, fetchVars, committed, schedVars, mbVars, once>>

NextPersist ==
    \/ PersistFresh
    \/ PersistAgain
    \/ PersistInterrupted

SpecPersist == InitPersist /\ [][NextPersist]_vars

MaxRestarts == 1

\* the keys load_request_log reads, in the order of its assignments
LogKeys == <<"total_requests", "halfmin_timestamps", "hourly_timestamps", "daily_timestamps">>

\* the content of a file json.load cannot decode (JSONDecodeError)
Undecodable == [undecodable |-> TRUE]

\* the number of globals load_request_log assigns before logs[key] raises
\* KeyError, or all four
RECURSIVE KeysLoaded(_, _)
KeysLoaded(logs, k) ==
    IF k > Len(LogKeys) THEN Len(LogKeys)
    ELSE IF LogKeys[k] \notin DOMAIN logs THEN k - 1
    ELSE KeysLoaded(logs, k + 1)

\* load_request_log() leaves with an exception it does not catch
LoadRaises(file) ==
    /\ file # NULL
    /\ file[1] # Undecodable
    /\ KeysLoaded(file[1], 1) < Len(LogKeys)

\* load_request_log(): the limiter's globals of a process, given the file;
\* the globals assigned before a KeyError keep the values of the file
load_request_log(L, file) ==
    IF file = NULL \/ file[1] = Undecodable THEN L
    ELSE LET logs == file[1]
             n == KeysLoaded(logs, 1)
         IN  [now |-> L.now,
              halfmin_timestamps |->
                  IF n >= 2 THEN logs.halfmin_timestamps ELSE L.halfmin_timestamps,
              hourly_timestamps |->
                  IF n >= 3 THEN logs.hourly_timestamps ELSE L.hourly_timestamps,
              daily_timestamps |->
                  IF n >= 4 THEN logs.daily_timestamps ELSE L.daily_timestamps,
              total_requests |->
                  IF n >= 1 THEN logs.total_requests ELSE L.total_requests]

\* the process ends wherever it stands, without its finally clause, or has
\* ended; a new process is started: the globals are those of the import,
\* the request log is loaded, the tables exist, the questions are asked
Restart ==
    /\ restarts < MaxRestarts
    /\ pos # "off"
    /\ restarts' = restarts + 1
    /\ SetLim(load_request_log(EmptyLimiter(now), request_log))
    /\ fop' = "none"
    /\ fpc' = "idle"
    /\ fargs' = NULL
    /\ retries' = 0
    /\ attempt' = 0
    /\ offset' = 0
    /\ total' = 0
    /\ items' = <<>>
    /\ fresult' = NULL
    /\ log' = <<>>
    /\ db' = committed
    /\ check_type' \in CheckTypes
    /\ check_albums' \in BOOLEAN
    /\ pos' = "tracks"
    /\ i' = 1
    /\ page' = <<>>
    /\ UNCHANGED <<timestamps, budget, committed, request_log, mbVars, persistVars>>

InitResume ==
    /\ InitLimiterVars
    /\ InitFetchIdle
    /\ budget = 1
    /\ timestamps = <<>>
    /\ \E saved \in SavedLists : db = Run(EmptyStore, dump_user_saved(saved)).db
    /\ committed = db
    /\ check_type = "tracks"
    /\ check_albums = TRUE
    /\ pos = "tracks"
    /\ i = 1
    /\ page = <<>>
    /\ request_log = NULL
    /\ restarts = 0
    /\ InitMbIdle
    /\ InitPersistIdle

NextResume ==
    \/ Next
    \/ Restart

SpecResume == InitResume /\ [][NextResume]_vars

(***************************************************************************)
(* The request log: a process starts on whatever file it finds, calls the  *)
(* limiter, writes the file at its end, and the next process starts.       *)
(***************************************************************************)
MaxLogCalls == 3

\* the log a process wrote after two calls half a second apart
WrittenLog ==
    [total_requests |-> 2,
     halfmin_timestamps |-> <<0, 5>>,
     hourly_timestamps |-> <<0, 5>>,
     daily_timestamps |-> <<0, 5>>]

\* the files a process can find: none, an undecodable one, or a JSON object
\* holding any of the four keys
LogFiles ==
    {NULL, Val(Undecodable)}
    \cup {Val([k \in K |-> WrittenLog[k]]) :
             K \in SUBSET {LogKeys[j] : j \in 1..Len(LogKeys)}}

InitLog ==
    /\ InitLimiterVars
    /\ InitFetchIdle
    /\ budget = 0
    /\ timestamps = <<>>
    /\ InitStoreIdle
    /\ check_type = ""
    /\ check_albums = FALSE
    /\ pos = "off"
    /\ i = 0
    /\ page = <<>>
    /\ request_log \in LogFiles
    /\ restarts = 0
    /\ InitMbIdle
    /\ InitPersistIdle

\* load_request_log() at the start of __main__; an exception it does not
\* catch ends the process there
LoadLog ==
    /\ pos = "off"
    /\ SetLim(load_request_log(LimState, request_log))
    /\ pos' = IF LoadRaises(request_log) THEN "crashed" ELSE "loaded"
    /\ UNCHANGED <<timestamps, fetchVars, storeVars, check_type, check_albums, i, page,
                   request_log, restarts, mbVars, persistVars>>

\* one call of the limiter, some time after the last
LogCall ==
    /\ pos = "loaded"
    /\ Len(daily_timestamps) < MaxLogCalls
    /\ \E p \in {0, Second} : SetLim(check_rate_limit([LimState EXCEPT !.now = now + p]))
    /\ UNCHANGED <<timestamps, fetchVars, storeVars, schedVars, mbVars, persistVars>>

\* the end of the process: save_request_log()
LogSave ==
    /\ pos = "loaded"
    /\ request_log' = SavedLog
    /\ pos' = "exited"
    /\ UNCHANGED <<limVars, timestamps, fetchVars, storeVars, check_type, check_albums, i,
                   page, restarts, mbVars, persistVars>>

\* the next process: the globals are those of the import
LogRestart ==
    /\ pos = "exited"
    /\ restarts < MaxRestarts
    /\ restarts' = restarts + 1
    /\ SetLim(EmptyLimiter(now))
    /\ pos' = "off"
    /\ UNCHANGED <<timestamps, fetchVars, storeVars, check_type, check_albums, i, page,
                   request_log, mbVars, persistVars>>

NextLog ==
    \/ LoadLog
    \/ LogCall
    \/ LogSave
    \/ LogRestart

SpecLog == InitLog /\ [][NextLog]_vars

\* C11: at every step of a persist, each junction row has its parent row:
\* the artist of every TrackArtist and AlbumArtist edge has an Artist row,
\* the genre of every ArtistGenre edge has a Genre row, and the area_id of
\* every Artist is the id of an Area row.
C11_ParentsBeforeJunctions ==
    /\ \A e \in db.TrackArtist : HasRow(db.Artist, e[2])
    /\ \A e \in db.AlbumArtist : HasRow(db.Artist, e[2])
    /\ \A e \in db.ArtistGenre : HasRow(db.Genre, e[2])
    /\ \A r \in db.Artist : r.area_id # NULL => HasRow(db.Area, r.area_id[1])

\* C12: in every committed store, every Track with a name has its album as a
\* row of Album and, for each of its artists, an Artist row and the
\* TrackArtist edge; every TrackArtist, AlbumArtist and ArtistGenre edge
\* references rows that exist.
C12_CommittedComplete ==
    /\ \A r \in committed.Track :
          r.name # NULL =>
             /\ HasRow(committed.Album, r.album_id[1])
             /\ \A k \in 1..Len(TrackInfo(r.id).artists) :
                   LET a == TrackInfo(r.id).artists[k].id
                   IN  /\ HasRow(committed.Artist, a)
                       /\ <<r.id, a>> \in committed.TrackArtist
    /\ \A e \in committed.TrackArtist :
          HasRow(committed.Track, e[1]) /\ HasRow(committed.Artist, e[2])
    /\ \A e \in committed.AlbumArtist :
          HasRow(committed.Album, e[1]) /\ HasRow(committed.Artist, e[2])
    /\ \A e \in committed.ArtistGenre :
          HasRow(committed.Artist, e[1]) /\ HasRow(committed.Genre, e[2])

\* C13: when the persist of a page ends with an error, nothing the page
\* wrote is committed: what is committed afterwards is what was committed
\* before, or at most the store as it was when the page's persist began.
C13_FailedPageNotCommitted ==
    [][pos' = "crashed" => committed' \in {committed, db}]_vars

\* C14 as stated: when the fetch of a page begins, the writes of the pages
\* before it are committed.
C14_PageCommittedBeforeNext ==
    [][(/\ pos \in Stages \cup {"artist_albums"}
        /\ pos' \in {Fetching(st) : st \in Stages} \cup {"artist_albums_fetch"})
       => db = committed]_vars

\* C14, amended: the artists and artist-albums stages commit after every
\* page; the tracks and albums stages commit after every 20th page of the
\* stage and when the stage finds no incomplete row, and not in between, so
\* that writes are uncommitted only inside the artist-albums page in flight
\* or in a tracks or albums stage that is not at a 20th page.
C14_CommitCadence ==
    /\ [][/\ \A st \in Stages :
              (pos = Fetching(st) /\ pos' = st)
              => committed' = IF st = "artists" \/ i % 20 = 0 THEN db' ELSE committed
          /\ (pos = "artist_albums_fetch" /\ pos' = "artist_albums") => committed' = db'
          /\ (pos \in Stages /\ check_type = pos /\ pos' = AfterStage(pos))
             => committed' = db /\ db' = db
          /\ (pos = "artist_albums" /\ pos' = "term") => committed' = db /\ db' = db]_vars
    /\ [](db # committed =>
            \/ pos = "artist_albums_fetch"
            \/ /\ pos \in {"tracks", "albums", Fetching("tracks"), Fetching("albums")}
               /\ i > 1
               /\ (i - 1) % 20 # 0)

C14_Witness ==
    /\ pos = "albums"
    /\ i = 21
    /\ db = committed
    /\ Incomplete(db, "albums") # {}
    /\ \E r \in committed.Album : r.name = Val("B")

\* the albums of an artist's whole listing
AllListed(artist_id) ==
    {x.id : x \in Range(AlbumListing(artist_id, 0).items)
                  \cup Range(AlbumListing(artist_id, ListingLimit).items)}

\* C15: once the scheduler was killed and started again, what it selects is
\* incomplete in the committed store, and whatever it can no longer select
\* was fetched: no row of a page has its name in the committed store, no
\* artist of an artist-albums page is committed with retrieved_albums = 1,
\* and every artist committed with retrieved_albums = 1 has the albums of
\* its listing as rows of Album.
C15_Resumable ==
    restarts > 0 =>
       /\ \A st \in Stages :
             pos = Fetching(st) =>
                \A k \in 1..Len(page) : page[k] \in Incomplete(committed, st)
       /\ pos = "artist_albums_fetch" => Head(page) \in NotRetrieved(committed)
       /\ \A r \in committed.Artist :
             r.retrieved_albums # 0 =>
                \A al \in AllListed(r.id) : HasRow(committed.Album, al)

\* C16: when an interrupt ends the scheduler, what is committed is the store
\* as the connection saw it, and the request log written holds the
\* limiter's total_requests and its three timestamp sequences as they are in
\* memory at that moment.
C16_InterruptCommitsAndFlushes ==
    [][pos' = "exited" =>
          /\ committed' = db'
          /\ request_log' = Val([total_requests |-> total_requests',
                                 halfmin_timestamps |-> halfmin_timestamps',
                                 hourly_timestamps |-> hourly_timestamps',
                                 daily_timestamps |-> daily_timestamps'])]_vars

C16_Witness ==
    /\ pos = "exited"
    /\ fpc = "request"
    /\ total_requests > 1
    /\ request_log # NULL
    /\ request_log[1].total_requests = total_requests
    /\ Len(request_log[1].halfmin_timestamps) > 1
    /\ \E r \in committed.Album : r.name # NULL

\* C17: a call of get_batch_info with a kind other than track, album and
\* artist, or with more ids than the kind allows (album 20, track and artist
\* 50), raises with no limiter slot taken, no HTTP attempt made, the store
\* untouched and the id list as it was passed; a list of exactly the
\* maximum is not rejected.
C17_BadBatchRejectedFirst ==
    fop = "get_batch_info" =>
       LET kind == fargs.item_type
           n == Len(fargs.item_ids)
           known == kind \in {"track", "album", "artist"}
           most == IF kind = "album" THEN 20 ELSE 50
       IN  /\ (~known \/ n > most) =>
                 /\ fpc = "raised"
                 /\ log = <<>>
                 /\ LimState = EmptyLimiter(0)
                 /\ db = EmptyStore /\ committed = EmptyStore
           /\ (known /\ n > 0 /\ n <= most) =>
                 /\ fpc # "raised"
                 /\ fresult # NULL => Len(fresult[1]) = n

C17_Witness ==
    /\ fop = "get_batch_info"
    /\ fpc = "raised"
    /\ fargs.item_type = "album"
    /\ Len(fargs.item_ids) = 21
    /\ total_requests = 0

\* C18: for a page of N > 0 ids the scheduler calls get_batch_info once, for
\* the stage's kind, with the ids of the page in their order; N is at most
\* the kind's maximum (album 20, track and artist 50), so that one batch is
\* ceil(N / maximum) batches and the call is not rejected; for an empty
\* page it calls nothing; and the call made for a page stays that page's
\* only call until the page is handled.
C18_BatchesAdmissible ==
    /\ [][\A st \in Stages :
              LET most == IF st = "albums" THEN 20 ELSE 50
                  kind == IF st = "tracks" THEN "track"
                          ELSE IF st = "albums" THEN "album" ELSE "artist"
              IN  /\ (pos = st /\ pos' = Fetching(st)) =>
                        /\ fop' = "get_batch_info"
                        /\ fargs' = [item_type |-> kind, item_ids |-> page']
                        /\ Len(page') > 0
                        /\ Len(page') <= most
                        /\ (Len(page') + most - 1) \div most = 1
                        /\ fpc' = "limit"
                  /\ (pos = st /\ pos' \notin {st, Fetching(st), "tracks"}) =>
                        UNCHANGED <<fop, fpc, fargs, log, total_requests>>
                  /\ (pos = Fetching(st) /\ pos' = Fetching(st)) =>
                        fargs' = fargs /\ page' = page]_vars
    /\ [](pos \in {Fetching(st) : st \in Stages} => fpc # "raised")

C18_Witness ==
    /\ pos = Fetching("albums")
    /\ Len(page) = 20
    /\ Cardinality(Incomplete(db, "albums")) > 20
    /\ fpc = "returned"
    /\ fresult # NULL
    /\ [k \in 1..20 |-> fresult[1][k].id] = page

\* the albums of a dump_albums input before the first whose release date has
\* a length other than 4, 7 and 10
BeforeBadDate(albums) ==
    {k \in 1..Len(albums) :
        \A j \in 1..k : Len(albums[j].release_date) \in {4, 7, 10}}

\* C19: dump_albums stores a release date of length 4 with "-01-01"
\* appended, of length 7 with "-01" appended and of length 10 as it is; at
\* the first album whose release date has another length it raises, and
\* neither that album's row nor any later one is written.
C19_ReleaseDateNormalized ==
    (pjob.persister = "dump_albums" /\ pjob.count = 1) =>
       /\ \A k \in BeforeBadDate(pjob.input) :
             LET date == pjob.input[k].release_date
             IN  \E r \in db.Album :
                    /\ r.id = pjob.input[k].id
                    /\ r.name = Val(pjob.input[k].name)
                    /\ r.release_date =
                          Val(IF Len(date) = 4 THEN date \o "-01-01"
                              ELSE IF Len(date) = 7 THEN date \o "-01"
                              ELSE date)
       /\ pjob.raised <=> BeforeBadDate(pjob.input) # 1..Len(pjob.input)
       /\ \A k \in 1..Len(pjob.input) :
             k \notin BeforeBadDate(pjob.input) =>
                \A r \in db.Album : r.id = pjob.input[k].id => r.name = NULL

C19_Witness ==
    /\ pjob.persister = "dump_albums"
    /\ pjob.count = 1
    /\ pjob.raised
    /\ Len(pjob.input) = 2
    /\ \E r \in db.Album : r.id = "al2" /\ r.release_date = Val("2001-05-01")
    /\ \E r \in db.Album : r.id = "al3" /\ r.name = NULL

\* C20: when a tracks page was fetched and persisted, every track of the
\* page has its name, its album has a row in Album, each of its artists has
\* a row in Artist and the TrackArtist edge; and every row Album and Artist
\* held before is still there with the same values.
C20_TracksPagePersisted ==
    [][(/\ pos = Fetching("tracks")
        /\ fpc = "returned"
        /\ fresult # NULL
        /\ pos' = "tracks")
       => /\ \A k \in 1..Len(page) :
                LET t == TrackInfo(page[k])
                IN  /\ \E r \in db'.Track : r.id = t.id /\ r.name = Val(t.name)
                    /\ HasRow(db'.Album, t.album.id)
                    /\ \A j \in 1..Len(t.artists) :
                          /\ HasRow(db'.Artist, t.artists[j].id)
                          /\ <<t.id, t.artists[j].id>> \in db'.TrackArtist
          /\ db.Album \subseteq db'.Album
          /\ db.Artist \subseteq db'.Artist]_vars

C20_Witness ==
    /\ pos = "tracks"
    /\ fop = "get_batch_info"
    /\ fpc = "idle"
    /\ fargs.item_type = "track"
    /\ \E k \in 1..Len(fargs.item_ids) : fargs.item_ids[k] = "t3"
    /\ fresult # NULL
    /\ \E r \in db.Track : r.id = "t3" /\ r.name = Val("T3")
    /\ \E r \in db.Artist : r.id = "a1" /\ r.name = Val("A1")
    /\ \E r \in db.Artist : r.id = "a2" /\ r.name = NULL
    /\ \E r \in db.Album : r.id = "al2" /\ r.name = NULL
    /\ {<<"t3", "a1">>, <<"t3", "a2">>} \subseteq db.TrackArtist

(***************************************************************************)
(* Records that lack a field                                               *)
(***************************************************************************)
\* C21: a track object lacking an expected field does not abort dump_tracks:
\* after the call every track of the batch that carries all its fields is
\* stored with its name, and the call has not raised.
C21_MissingFieldDoesNotAbort ==
    (pjob.persister = "dump_tracks" /\ pjob.count >= 1)
        => /\ ~pjob.raised
           /\ \A k \in 1..Len(pjob.input) :
                 (TrackFields \subseteq DOMAIN pjob.input[k])
                     => /\ HasRow(db.Track, pjob.input[k].id)
                        /\ Row(db.Track, pjob.input[k].id).name = Val(pjob.input[k].name)

(***************************************************************************)
(* The base wait                                                           *)
(***************************************************************************)
\* C22: every call of check_rate_limit takes the base wait, whether or not a
\* window is at its cap: the call returns at least base_wait after it was
\* entered, so two consecutive admissions are at least base_wait apart, and
\* the timestamps recorded by consecutive calls differ by at least base_wait.
C22_BaseDelayBetweenAdmissions ==
    [][total_requests' = total_requests + 1
          => /\ now' >= now + base_wait
             /\ \A k \in 1..(Len(daily_timestamps') - 1) :
                   daily_timestamps'[k + 1] - daily_timestamps'[k] >= base_wait]_vars

\* calls made back to back, below the cap and at the cap of the 30-second window
C22_Witness ==
    /\ total_requests > MAX_REQUESTS_PER_30_SEC
    /\ Len(halfmin_timestamps) > MAX_REQUESTS_PER_30_SEC
    /\ \E k \in 1..(Len(daily_timestamps) - 1) :
          daily_timestamps[k + 1] - daily_timestamps[k] = base_wait

(***************************************************************************)
(* Loading the request log                                                 *)
(***************************************************************************)
\* C23: load_request_log is not fatal on a missing or malformed log: when the
\* file is absent, cannot be decoded, or is a JSON object lacking one of the
\* four keys, the call returns normally and leaves the limiter empty (no
\* request counted, the three windows empty), never partially loaded.
C23_BadLogStartsEmpty ==
    [][(pos = "off" /\ pos' # "off"
          /\ (request_log = NULL \/ request_log[1] = Undecodable
                \/ KeysLoaded(request_log[1], 1) < Len(LogKeys)))
        => /\ pos' = "loaded"
           /\ total_requests' = 0
           /\ halfmin_timestamps' = <<>>
           /\ hourly_timestamps' = <<>>
           /\ daily_timestamps' = <<>>]_vars

(***************************************************************************)
(* The order of the stages                                                 *)
(***************************************************************************)
\* the stage whose loop the scheduler is in or is heading for: the
\* artist-albums loop while control is inside it, else the stage check_type
\* names ("none" for a start value that names no stage)
StageOf ==
    IF pos \in {"artist_albums", "artist_albums_fetch"} THEN "artist_albums"
    ELSE IF check_type \in Stages THEN check_type
    ELSE "none"

\* the stages that may follow a stage
SuccStages(stage) ==
    IF stage = "tracks" THEN {"albums"}
    ELSE IF stage = "albums" THEN {"artists"}
    ELSE IF stage = "artist_albums" THEN {"tracks"}
    ELSE IF check_albums THEN {"artist_albums"}
    ELSE {"tracks"}

\* C24: the stages follow each other in the order tracks, albums, artists,
\* artist-albums (when enabled), tracks, ..., from whichever stage the
\* scheduler starts in, and a stage is left only on an empty page: at every
\* change of stage the stage being left has no incomplete row, so a page
\* that is not empty keeps the scheduler in its stage.
C24_StagesInOrder ==
    [][(pos' \notin {"done", "exited", "crashed"} /\ StageOf' # StageOf)
        => /\ StageOf' \in SuccStages(StageOf)
           /\ StageOf \in Stages => Incomplete(db, StageOf) = {}
           /\ StageOf = "artist_albums" => NotRetrieved(db) = {}]_vars

\* the scheduler is back at the tracks stage after the artist-albums stage
\* has marked an artist, and the albums stage has work again
C24_Witness ==
    /\ pos = "tracks"
    /\ check_type = "tracks"
    /\ \E r \in db.Artist : r.retrieved_albums = 1
    /\ Incomplete(db, "albums") # {}

C26_DoneWithoutArtistAlbums ==
    (~check_albums /\ AllUpdatedNamesOnly(db)) ~> (pos = "done")

(***************************************************************************)
(* Rows stay, and stay complete                                            *)
(***************************************************************************)
\* every row of the table is still in the later table, and a row that had
\* its name still has one
RowsKept(before, after) ==
    \A r \in before :
        /\ HasRow(after, r.id)
        /\ r.name # NULL => Row(after, r.id).name # NULL

\* C27: completion is monotonic: no step of the scheduler or of a persister
\* deletes a Track, Album or Artist row, and a row that has its name keeps a
\* name in every later state; in particular the placeholder insert for an
\* id that already has a row changes nothing.
C27_CompletionMonotonic ==
    [][/\ RowsKept(db.Track, db'.Track)
       /\ RowsKept(db.Album, db'.Album)
       /\ RowsKept(db.Artist, db'.Artist)]_vars

\* the saved track t1 was stored with its name, and later the album al1 was
\* persisted, whose track list inserts the placeholder of t1 again
C27_Witness ==
    /\ HasRow(db.Track, "t1")
    /\ Row(db.Track, "t1").name # NULL
    /\ HasRow(db.Album, "al1")
    /\ Row(db.Album, "al1").name # NULL
    /\ HasRow(db.Artist, "a1")
    /\ Row(db.Artist, "a1").name # NULL

(***************************************************************************)
(* The other columns of an artist                                          *)
(***************************************************************************)
\* C28: persisting an artist's details leaves its other progress markers as
\* they are: an artist whose retrieved_albums is 1 keeps that value, and an
\* artist keeps its area_id, through every later step of the scheduler,
\* whatever the start value.
C28_ArtistMarkersKept ==
    [][\A r \in db.Artist :
          \A r2 \in db'.Artist :
             r2.id = r.id
                => /\ r.retrieved_albums = 1 => r2.retrieved_albums = 1
                   /\ r2.area_id = r.area_id]_vars

(***************************************************************************)
(* The shape of the three windows                                          *)
(***************************************************************************)
NonDecreasing(q) == \A k \in 1..(Len(q) - 1) : q[k] <= q[k + 1]

\* q is what is left of r once some of its oldest entries are dropped
IsSuffix(q, r) ==
    /\ Len(q) <= Len(r)
    /\ q = SubSeq(r, Len(r) - Len(q) + 1, Len(r))

\* C29: from the empty limiter, with a clock that does not go back, after any
\* sequence of check_rate_limit calls every window is in non-decreasing
\* order, the 30-second window is a suffix of the hourly window and the
\* hourly window a suffix of the daily one; every call appends one and the
\* same timestamp to the three windows and adds exactly one to
\* total_requests, which therefore counts the calls completed.
C29_WindowsNested ==
    /\ [](/\ NonDecreasing(halfmin_timestamps)
          /\ NonDecreasing(hourly_timestamps)
          /\ NonDecreasing(daily_timestamps)
          /\ IsSuffix(halfmin_timestamps, hourly_timestamps)
          /\ IsSuffix(hourly_timestamps, daily_timestamps)
          /\ total_requests >= Len(daily_timestamps))
    /\ [][(total_requests' # total_requests \/ daily_timestamps' # daily_timestamps)
            => /\ total_requests' = total_requests + 1
               /\ halfmin_timestamps' # <<>>
               /\ halfmin_timestamps'[Len(halfmin_timestamps')] = now
               /\ hourly_timestamps'[Len(hourly_timestamps')] = now
               /\ daily_timestamps'[Len(daily_timestamps')] = now
               /\ IsSuffix(Front(halfmin_timestamps'), halfmin_timestamps)
               /\ IsSuffix(Front(hourly_timestamps'), hourly_timestamps)
               /\ IsSuffix(Front(daily_timestamps'), daily_timestamps)]_vars

\* each window has dropped entries the next longer one still holds
C29_Witness ==
    /\ halfmin_timestamps # <<>>
    /\ Len(halfmin_timestamps) < Len(hourly_timestamps)
    /\ Len(hourly_timestamps) < Len(daily_timestamps)

(***************************************************************************)
(* Progress of the Provider-B loop                                         *)
(***************************************************************************)
\* the named artists the query of the loop still selects
Lacking(d) ==
    {r.id : r \in {x \in d.Artist :
        /\ x.name # NULL
        /\ x.area_id = NULL \/ {e \in d.ArtistGenre : e[1] = x.id} = {}}}

\* C30: every iteration of the Provider-B loop with a batch that is not
\* empty leaves strictly fewer named artists without an area_id or without
\* a genre edge, whatever the fetch came to, so that the loop ends with
\* "All artist data updated!" after finitely many iterations.
C30_EveryBatchProgresses ==
    [][(mpc = "fetch" /\ mpc' = "select")
        => Cardinality(Lacking(db')) < Cardinality(Lacking(db))]_vars

====
